---- MODULE Spec2Model ----
(***************************************************************************)
(* Sealed-bid auction front end (arcium-auction).                          *)
(*                                                                         *)
(* The auction store is the React state `auctions` of App, mirrored to     *)
(* localStorage.  Every handler that changes it (handleCreateAuction,      *)
(* handleUpdateAuction) is a closure over the `auctions` value of the      *)
(* render in which the handler was handed to a component; an asynchronous  *)
(* handler (bid submission, finalization, auction creation) keeps the      *)
(* closure of the render in which it was started and applies its update to *)
(* that value when its timers and awaits are over.                         *)
(*                                                                         *)
(* The specifications of the module share its variables:                   *)
(*   Spec         the auction lifecycle (store, cards, in-flight handlers) *)
(*   SpecReload   the lifecycle with page reloads                          *)
(*   SpecSettle   the lifecycle from a store with one auction and one bid, *)
(*                with fairness of the clock and of the settle's timers    *)
(*   SpecOnChain  the bid form of the on-chain variant of BidSubmission    *)
(*   SpecEval     the winner loop of WinnerReveal.handleFinalize on bid    *)
(*                lists drawn from a bounded set                           *)
(*   SpecCipher   the demo key exchange and SimplifiedRescueCipher on      *)
(*                inputs drawn from bounded sets                           *)
(*   SpecWrongKey decryption under another shared secret                   *)
(*   SpecRange    sealing of amounts inside and outside the block's range  *)
(*   SpecPair     sealing of two different amounts under one secret        *)
(*   SpecSeal     encryptBid and verifyEncryption                          *)
(***************************************************************************)
EXTENDS Integers, Sequences, FiniteSets, TLC

VARIABLES
    now,            \* Date.now(), in clock ticks
    auctions,       \* App state `auctions`: the list of auction records
    persisted,      \* localStorage['arcium_auctions']
    nextId,         \* number of ids drawn from crypto.randomUUID() for auctions
    ops,            \* asynchronous handlers in flight, each with its closure
    cards,          \* per auction id: the mounted AuctionCard's component state
    creator,        \* App.showCreateForm and AuctionCreator.isSubmitting
    settleLog,      \* per auction id: the onFinalized calls made so far
    ev,             \* SpecEval: the winner loop's input and locals
    cx              \* the cipher specifications: inputs and outputs

vars == <<now, auctions, persisted, nextId, ops, cards, creator, settleLog,
          ev, cx>>

lifecycleVars == <<now, auctions, persisted, nextId, ops, cards, creator,
                   settleLog>>

(***************************************************************************)
(* Bounds of the model.                                                    *)
(***************************************************************************)
MaxTime == 4
MaxAuctions == 2
MaxOps == 2
MaxAmount == 2
MaxEndTime == 3

Bidders == {"X", "Y"}
Creators == {"C"}
AuctionIds == 1..MaxAuctions

\* A field that a JavaScript object does not have (undefined).
Undefined == "undefined"
NoAmount == 0

\* parseFloat(bidAmount) of a text that is not a number: NaN, kept apart
\* from every number the form can hold.
NaN == -2

\* What parseFloat(bidAmount) can be in BidSubmission.handleSubmit.
BidInputs == (-1..MaxAmount) \cup {NaN}

(***************************************************************************)
(* helpers.js validateBid: throws unless amount is a number, > 0 and       *)
(* >= minimumBid.                                                          *)
(***************************************************************************)
validateBidNoMinimum(amount, minimumBid) ==
    /\ amount # NaN
    /\ amount > 0
validateBid(amount, minimumBid) ==
    /\ amount # NaN
    /\ amount > 0
    /\ amount >= minimumBid

(***************************************************************************)
(* AuctionCreator.validate: item name and description non-empty, minimum   *)
(* bid > 0, end time strictly in the future.                               *)
(***************************************************************************)
validateAnyMinimum(textOk, minBid, endTime) ==
    /\ textOk
    /\ endTime > now
validate(textOk, minBid, endTime) ==
    /\ textOk
    /\ minBid > 0
    /\ endTime > now

\* AuctionCreator.handleSubmit: the record handed to onCreateAuction.
NewAuction(id, who, minBid, endTime) ==
    [id |-> id, creator |-> who, minimumBid |-> minBid, endTime |-> endTime,
     bids |-> <<>>, status |-> "active", winner |-> Undefined,
     winningBid |-> NoAmount]

\* BidSubmission.handleSubmit: the bid record handed to onBidSubmitted.  The
\* sealed fields (ciphertext, publicKey, nonce) are opaque to the lifecycle
\* and are modelled in SpecCipher; `amount` is the clear amount.
NewBidNoClock(who, amount) ==
    [bidder |-> who, amount |-> amount, timestamp |-> 0]
NewBid(who, amount) ==
    [bidder |-> who, amount |-> amount, timestamp |-> now]

(***************************************************************************)
(* WinnerReveal.handleFinalize, the winner loop:                           *)
(*   let maxBid = 0; let winnerAddress = '';                               *)
(*   bids.forEach(bid => { if (bid.amount > maxBid) { ... } })             *)
(***************************************************************************)
WinnerStepFlipped(acc, bid) ==
    IF bid.amount < acc.maxBid
    THEN [maxBid |-> bid.amount, winnerAddress |-> bid.bidder]
    ELSE acc
WinnerStep(acc, bid) ==
    IF bid.amount > acc.maxBid
    THEN [maxBid |-> bid.amount, winnerAddress |-> bid.bidder]
    ELSE acc

WinnerInit == [maxBid |-> 0, winnerAddress |-> ""]

RECURSIVE WinnerFold(_, _, _)
WinnerFold(bids, i, acc) ==
    IF i > Len(bids) THEN acc
    ELSE WinnerFold(bids, i + 1, WinnerStep(acc, bids[i]))

ComputeWinner(bids) == WinnerFold(bids, 1, WinnerInit)

(***************************************************************************)
(* App.handleUpdateAuction on the closure's `auctions` value:              *)
(*   auctions.map(a => a.id === auctionId ? { ...a, ...updates } : a)      *)
(***************************************************************************)
Merge(a, updates) ==
    [f \in DOMAIN a |-> IF f \in DOMAIN updates THEN updates[f] ELSE a[f]]

handleUpdateAuction(closure, auctionId, updates) ==
    [i \in 1..Len(closure) |->
        IF closure[i].id = auctionId THEN Merge(closure[i], updates)
        ELSE closure[i]]

\* App.handleCreateAuction on the closure's `auctions` value.
handleCreateAuction(closure, newAuction) == Append(closure, newAuction)

\* The auction with this id in a list (the card's `auction` prop).
HasAuction(list, id) == \E i \in 1..Len(list) : list[i].id = id
AuctionOf(list, id) ==
    list[CHOOSE i \in 1..Len(list) : list[i].id = id]

\* AuctionCard.handleBidSubmitted's update.
BidUpdate(auction, bid) == [bids |-> Append(auction.bids, bid)]

\* AuctionCard.handleFinalized's update.
FinalizedUpdateNoWinner(winner, winningBid) ==
    [status |-> "finalized"]
FinalizedUpdateKeepsStatus(winner, winningBid) ==
    [winner |-> winner, winningBid |-> winningBid]
FinalizedUpdateClosesNow(winner, winningBid) ==
    [status |-> "finalized", winner |-> winner, winningBid |-> winningBid,
     endTime |-> now]
FinalizedUpdate(winner, winningBid) ==
    [status |-> "finalized", winner |-> winner, winningBid |-> winningBid]

(***************************************************************************)
(* Rendering.  AuctionCard computes isEnded = Date.now() >= auction.endTime*)
(* when it renders; a card is mounted while its auction is in the store;   *)
(* BidSubmission is mounted while showBidForm; WinnerReveal is mounted     *)
(* while isEnded && !isFinalized.  Unmounting a component drops its state. *)
(* noBidsAlert: the card's WinnerReveal has called                         *)
(* alert('No bids submitted for this auction') and the dialog is open;     *)
(* window.alert blocks the page's scripts until it is dismissed.           *)
(***************************************************************************)
\* BidSubmission's `error` text: '', the message thrown by validateBid, or
\* the message thrown by a later step of handleSubmit.
NoError == ""

NoCard == [isEnded |-> FALSE, showBidForm |-> FALSE, isEncrypting |-> FALSE,
           error |-> NoError, isFinalizing |-> FALSE, noBidsAlert |-> FALSE]

\* WinnerReveal.handleFinalize: if (auction.bids.length === 0)
NoBidsNever(auction) == FALSE
NoBidsSubmitted(auction) == Len(auction.bids) = 0

\* AuctionCard: const isEnded = Date.now() >= auction.endTime
isEndedEarly(t, auction) == t + 1 >= auction.endTime
isEndedAt(t, auction) == t >= auction.endTime
isFinalized(auction) == auction.status = "finalized"

\* One card rendered at time t against the store `list`.
RenderCard(list, id, card, t) ==
    IF ~HasAuction(list, id) THEN NoCard
    ELSE LET a == AuctionOf(list, id)
             ended == isEndedAt(t, a)
         IN [isEnded |-> ended,
             showBidForm |-> card.showBidForm,
             isEncrypting |-> card.showBidForm /\ card.isEncrypting,
             error |-> IF card.showBidForm THEN card.error ELSE NoError,
             isFinalizing |-> ended /\ ~isFinalized(a) /\ card.isFinalizing,
             noBidsAlert |-> card.noBidsAlert]

\* App renders: every card renders.
RenderAll(list, cs, t) == [id \in AuctionIds |-> RenderCard(list, id, cs[id], t)]

\* The component that started an in-flight handler is still mounted.
OpLive(op, cs, cr) ==
    /\ op.live
    /\ CASE op.kind = "bid" -> cs[op.id].isEncrypting
         [] op.kind = "balance" -> cs[op.id].showBidForm
         [] op.kind = "finalize" -> cs[op.id].isFinalizing
         [] OTHER -> cr.showCreateForm /\ cr.isSubmitting

Orphan(os, cs, cr) ==
    {[op EXCEPT !.live = OpLive(op, cs, cr)] : op \in os}

(***************************************************************************)
(* anchorClient.js, "Arcium MPC Encryption Utilities".                     *)
(*                                                                         *)
(* A Uint8Array is a sequence of bytes (JavaScript index i is index i + 1  *)
(* here).  A BigInt is its sequence of base-256 digits, most significant   *)
(* first, without leading zeros (0n is the empty sequence), so that values *)
(* up to 2^256 and beyond are exact.                                       *)
(***************************************************************************)
BlockLen == 32
NonceLen == 16
Byte == 256

\* JavaScript's ^ on two bytes.
RECURSIVE Xor(_, _)
Xor(a, b) ==
    IF a = 0 THEN b
    ELSE IF b = 0 THEN a
    ELSE 2 * Xor(a \div 2, b \div 2) + (((a % 2) + (b % 2)) % 2)

\* BigInt(n) for a number n.
RECURSIVE BigInt(_)
BigInt(n) == IF n = 0 THEN <<>> ELSE Append(BigInt(n \div Byte), n % Byte)

\* num % 256n, num / 256n, (result << 8n) + BigInt(byte) on BigInts.
BigMod256(num) == IF num = <<>> THEN 0 ELSE num[Len(num)]
BigDiv256(num) == IF num = <<>> THEN <<>> ELSE SubSeq(num, 1, Len(num) - 1)
BigShl8Add(result, byte) ==
    IF result = <<>> /\ byte = 0 THEN <<>> ELSE Append(result, byte)

Reverse(s) == [i \in 1..Len(s) |-> s[Len(s) + 1 - i]]

\* SimplifiedRescueCipher.bigIntToBytes: push num % 256 while num > 0, then
\* reverse: the shortest big-endian byte string of the value.
RECURSIVE PushBytes(_, _)
PushBytes(num, bytes) ==
    IF num = <<>> THEN bytes
    ELSE PushBytes(BigDiv256(num), Append(bytes, BigMod256(num)))

bigIntToBytes(value) == Reverse(PushBytes(value, <<>>))

\* SimplifiedRescueCipher.bytesToBigInt.
RECURSIVE BytesFold(_, _, _)
BytesFold(bytes, i, result) ==
    IF i > Len(bytes) THEN result
    ELSE BytesFold(bytes, i + 1, BigShl8Add(result, bytes[i]))

bytesToBigInt(bytes) == BytesFold(bytes, 1, <<>>)

\* SimplifiedRescueCipher.encrypt, with this.key = key:
\*   plainByte = i < valueBytes.length ? valueBytes[i] : 0
\*   data[i] = (plainByte ^ key[i] ^ nonce[i % nonce.length]) % 256
encrypt(key, plaintext, nonce) ==
    LET valueBytes == bigIntToBytes(plaintext)
    IN [k \in 1..BlockLen |->
           LET plainByte == IF k <= Len(valueBytes) THEN valueBytes[k] ELSE 0
           IN Xor(Xor(plainByte, key[k]), nonce[((k - 1) % Len(nonce)) + 1]) % Byte]

\* SimplifiedRescueCipher.decrypt, with this.key = key.
decrypt(key, ciphertext, nonce) ==
    bytesToBigInt(
        [k \in 1..BlockLen |->
            Xor(Xor(ciphertext[k], key[k]), nonce[((k - 1) % Len(nonce)) + 1]) % Byte])

\* generateX25519Keypair: publicKey[i] = (privateKey[i] * 9 + 121) % 256.
PublicKeyOf(privateKey) ==
    [k \in 1..BlockLen |-> ((privateKey[k] * 9) + 121) % Byte]

\* The private key that generateX25519Keypair maps to this public key: per
\* byte, the x with (x * 9 + 121) % 256 = publicKey[i].
InvertPublicKey(publicKey) ==
    [k \in 1..BlockLen |->
        CHOOSE x \in 0..(Byte - 1) : ((x * 9) + 121) % Byte = publicKey[k]]

\* performKeyExchange: sharedSecret[i] = (privateKey[i] ^ publicKey[i]) % 256.
performKeyExchange(privateKey, publicKey) ==
    [k \in 1..BlockLen |-> Xor(privateKey[k], publicKey[k]) % Byte]

(***************************************************************************)
(* Inputs of the cipher experiment.  crypto.getRandomValues fills a        *)
(* private key or a nonce with arbitrary bytes; the model draws them from  *)
(* a family of byte strings indexed by a seed.                             *)
(***************************************************************************)
MaxSeed == 2
MaxPlain == 3

MaxDelta == 1

\* Another 32-byte secret: `key` with byte p changed by a and byte q by b.
WrongKey(key, p, a, q, b) ==
    [k \in 1..BlockLen |->
        Xor(key[k], Xor(IF k = p THEN a ELSE 0, IF k = q THEN b ELSE 0))]

RandomBytes(seed, len) ==
    [k \in 1..len |-> ((seed * 83) + ((k - 1) * (seed + 1))) % Byte]

\* Amounts in lamports: small values, values of two, three and four bytes
\* (1000000000 lamports are 1 SOL), and one value that fills the block.
Plaintexts ==
    {BigInt(n) : n \in 0..MaxPlain} \cup
    {BigInt(255), BigInt(256), BigInt(65536), BigInt(1000000000)} \cup
    {[k \in 1..BlockLen |-> 1]}

(***************************************************************************)
(* Initial state: an empty localStorage, nothing in flight.                *)
(***************************************************************************)
EvIdle == [bids |-> <<>>, i |-> 0, maxBid |-> 0, winnerAddress |-> ""]
CxIdle == [stage |-> "idle"]

\* App.showCreateForm with AuctionCreator's state: isSubmitting, and errors
\* for "the errors object has an entry".
NoCreator == [showCreateForm |-> FALSE, isSubmitting |-> FALSE,
              errors |-> FALSE]

InitLifecycle ==
    /\ now = 0
    /\ auctions = <<>>
    /\ persisted = <<>>
    /\ nextId = 0
    /\ ops = {}
    /\ cards = [id \in AuctionIds |-> NoCard]
    /\ creator = NoCreator
    /\ settleLog = [id \in AuctionIds |-> <<>>]

Init ==
    /\ InitLifecycle
    /\ ev = EvIdle
    /\ cx = CxIdle

(***************************************************************************)
(* In-flight handlers.  `closure` is the `auctions` value of the render in *)
(* which the handler was started; the card's `auction` prop of that render *)
(* is the closure's record with the handler's id.  `waited` says that the  *)
(* clock has advanced since the start (every handler awaits timers before  *)
(* it commits); `live` that the component that started it is still mounted.*)
(***************************************************************************)
Op(kind, id, who, amount, endTime) ==
    [kind |-> kind, id |-> id, closure |-> auctions, who |-> who,
     amount |-> amount, endTime |-> endTime, waited |-> FALSE, live |-> TRUE]

\* Date.now() advances; every pending timer has then run for a while.
Tick ==
    /\ now < MaxTime
    /\ now' = now + 1
    /\ ops' = {[op EXCEPT !.waited = TRUE] : op \in ops}
    /\ UNCHANGED <<auctions, persisted, nextId, cards, creator,
                   settleLog, ev, cx>>

\* App: the "Create Auction" button, setShowCreateForm(!showCreateForm), and
\* AuctionCreator's onCancel.  App renders, and with it every card.
ToggleCreateForm ==
    /\ creator' = [NoCreator EXCEPT !.showCreateForm = ~creator.showCreateForm]
    /\ cards' = RenderAll(auctions, cards, now)
    /\ ops' = Orphan(ops, cards', creator')
    /\ UNCHANGED <<now, auctions, persisted, nextId, settleLog,
                   ev, cx>>

\* AuctionCreator.handleChange: a field is edited and its error is cleared.
EditCreateForm ==
    /\ creator.showCreateForm
    /\ creator' = [creator EXCEPT !.errors = FALSE]
    /\ UNCHANGED <<now, auctions, persisted, nextId, ops, cards, settleLog,
                   ev, cx>>

\* AuctionCreator.handleSubmit up to its first await.
CreateSubmit(textOk, who, minBid, endTime) ==
    /\ creator.showCreateForm
    /\ ~creator.isSubmitting
    /\ IF ~validate(textOk, minBid, endTime)
       THEN /\ creator' = [creator EXCEPT !.errors = TRUE]
            /\ UNCHANGED <<nextId, ops>>
       ELSE /\ nextId < MaxAuctions
            /\ Cardinality(ops) < MaxOps
            /\ nextId' = nextId + 1
            /\ ops' = ops \cup {Op("create", nextId + 1, who, minBid, endTime)}
            /\ creator' = [creator EXCEPT !.isSubmitting = TRUE,
                                          !.errors = FALSE]
    /\ UNCHANGED <<now, auctions, persisted, cards, settleLog, ev, cx>>

\* AuctionCreator.handleSubmit after its awaits: onCreateAuction(newAuction).
CreateComplete(op) ==
    /\ op.kind = "create"
    /\ op.waited
    /\ auctions' = handleCreateAuction(op.closure,
                       NewAuction(op.id, op.who, op.amount, op.endTime))
    /\ persisted' = auctions'
    /\ creator' = NoCreator
    /\ cards' = RenderAll(auctions', cards, now)
    /\ ops' = Orphan(ops \ {op}, cards', creator')
    /\ UNCHANGED <<now, nextId, settleLog, ev, cx>>

\* AuctionCreator.handleSubmit: createAuctionWithProgram throws.
CreateFail(op) ==
    /\ op.kind = "create"
    /\ ops' = ops \ {op}
    /\ creator' = IF op.live THEN [creator EXCEPT !.isSubmitting = FALSE,
                                                  !.errors = TRUE]
                  ELSE creator
    /\ UNCHANGED <<now, auctions, persisted, nextId, cards, settleLog, ev, cx>>

\* AuctionCard: the "Submit Encrypted Bid" button, shown while
\* !isEnded && !showBidForm.
OpenBidForm(id) ==
    /\ HasAuction(auctions, id)
    /\ ~cards[id].isEnded
    /\ ~cards[id].showBidForm
    /\ cards' = [cards EXCEPT ![id] =
                    RenderCard(auctions, id, [@ EXCEPT !.showBidForm = TRUE], now)]
    /\ UNCHANGED <<now, auctions, persisted, nextId, ops, creator,
                   settleLog, ev, cx>>

\* BidSubmission: the Cancel button, disabled while isEncrypting.
CancelBidForm(id) ==
    /\ cards[id].showBidForm
    /\ ~cards[id].isEncrypting
    /\ cards' = [cards EXCEPT ![id] =
                    RenderCard(auctions, id, [@ EXCEPT !.showBidForm = FALSE], now)]
    /\ UNCHANGED <<now, auctions, persisted, nextId, ops, creator,
                   settleLog, ev, cx>>

\* BidSubmission: the amount input's onChange, setBidAmount and setError('');
\* the input is disabled while isEncrypting.
EditBidAmount(id) ==
    /\ cards[id].showBidForm
    /\ ~cards[id].isEncrypting
    /\ cards' = [cards EXCEPT ![id].error = NoError]
    /\ UNCHANGED <<now, auctions, persisted, nextId, ops, creator,
                   settleLog, ev, cx>>

\* BidSubmission.handleSubmit up to its first await; the submit button is
\* disabled while isEncrypting.
BidSubmit(id, who, amount) ==
    /\ HasAuction(auctions, id)
    /\ cards[id].showBidForm
    /\ ~cards[id].isEncrypting
    /\ IF ~validateBid(amount, AuctionOf(auctions, id).minimumBid)
       THEN /\ cards' = [cards EXCEPT ![id].error = "invalid"]
            /\ UNCHANGED ops
       ELSE /\ Cardinality(ops) < MaxOps
            /\ ops' = ops \cup {Op("bid", id, who, amount, 0)}
            /\ cards' = [cards EXCEPT ![id].isEncrypting = TRUE,
                                      ![id].error = NoError]
    /\ UNCHANGED <<now, auctions, persisted, nextId, creator, settleLog, ev, cx>>

\* BidSubmission.handleSubmit after its awaits: onBidSubmitted(encryptedBid),
\* that is AuctionCard.handleBidSubmitted and App.handleUpdateAuction of the
\* render in which the submission started.
BidComplete(op) ==
    /\ op.kind = "bid"
    /\ op.waited
    /\ LET auction == AuctionOf(op.closure, op.id)
       IN auctions' = handleUpdateAuction(op.closure, op.id,
                          BidUpdate(auction, NewBid(op.who, op.amount)))
    /\ persisted' = auctions'
    /\ LET cs == IF op.live
                 THEN [cards EXCEPT ![op.id].showBidForm = FALSE,
                                    ![op.id].isEncrypting = FALSE]
                 ELSE cards
       IN cards' = RenderAll(auctions', cs, now)
    /\ ops' = Orphan(ops \ {op}, cards', creator)
    /\ UNCHANGED <<now, nextId, creator, settleLog, ev, cx>>

\* BidSubmission.handleSubmit (on-chain variant): the balance check or
\* submitBidOnChain throws; the catch block reports it.
BidFailKeepsBid(op) ==
    /\ op.kind = "bid"
    /\ auctions' = handleUpdateAuction(op.closure, op.id,
                       BidUpdate(AuctionOf(op.closure, op.id),
                                 NewBid(op.who, op.amount)))
    /\ persisted' = auctions'
    /\ cards' = IF op.live THEN [cards EXCEPT ![op.id].isEncrypting = FALSE,
                                              ![op.id].error = "failed"]
                ELSE cards
    /\ ops' = ops \ {op}
    /\ UNCHANGED <<now, nextId, creator, settleLog, ev, cx>>
BidFail(op) ==
    /\ op.kind = "bid"
    /\ ops' = ops \ {op}
    /\ cards' = IF op.live THEN [cards EXCEPT ![op.id].isEncrypting = FALSE,
                                              ![op.id].error = "failed"]
                ELSE cards
    /\ UNCHANGED <<now, auctions, persisted, nextId, creator, settleLog, ev, cx>>

\* WinnerReveal.handleFinalize up to its first await.  WinnerReveal is
\* rendered while isEnded && !isFinalized, its button while !isFinalizing.
FinalizeClick(id) ==
    /\ HasAuction(auctions, id)
    /\ cards[id].isEnded
    /\ ~isFinalized(AuctionOf(auctions, id))
    /\ ~cards[id].isFinalizing
    /\ IF NoBidsSubmitted(AuctionOf(auctions, id))
       THEN /\ cards' = [cards EXCEPT ![id].noBidsAlert = TRUE]
            /\ UNCHANGED ops
       ELSE /\ Cardinality(ops) < MaxOps
            /\ ops' = ops \cup {Op("finalize", id, "", 0, 0)}
            /\ cards' = [cards EXCEPT ![id].isFinalizing = TRUE]
    /\ UNCHANGED <<now, auctions, persisted, nextId, creator, settleLog, ev, cx>>

\* WinnerReveal.handleFinalize after its staged timers: the winner loop over
\* the `auction.bids` of its closure, then onFinalized(winnerAddress, maxBid),
\* that is AuctionCard.handleFinalized and App.handleUpdateAuction.
FinalizeComplete(op) ==
    /\ op.kind = "finalize"
    /\ op.waited
    /\ LET w == ComputeWinner(AuctionOf(op.closure, op.id).bids)
       IN /\ auctions' = handleUpdateAuction(op.closure, op.id,
                             FinalizedUpdate(w.winnerAddress, w.maxBid))
          /\ settleLog' = [settleLog EXCEPT ![op.id] =
                              Append(@, <<w.winnerAddress, w.maxBid>>)]
    /\ persisted' = auctions'
    /\ LET cs == IF op.live THEN [cards EXCEPT ![op.id].isFinalizing = FALSE]
                 ELSE cards
       IN cards' = RenderAll(auctions', cs, now)
    /\ ops' = Orphan(ops \ {op}, cards', creator)
    /\ UNCHANGED <<now, nextId, creator, ev, cx>>

\* The alert dialog of some card is open.
AlertOpen == \E id \in AuctionIds : cards[id].noBidsAlert

\* The user dismisses the alert; handleFinalize returns.
DismissAlert(id) ==
    /\ cards[id].noBidsAlert
    /\ cards' = [cards EXCEPT ![id].noBidsAlert = FALSE]
    /\ UNCHANGED <<now, auctions, persisted, nextId, ops, creator,
                   settleLog, ev, cx>>

\* No handler and no timer callback runs while an alert dialog is open.
Handlers ==
    \/ ToggleCreateForm
    \/ EditCreateForm
    \/ \E textOk \in BOOLEAN, who \in Creators, minBid \in 0..MaxAmount,
          endTime \in 0..MaxEndTime : CreateSubmit(textOk, who, minBid, endTime)
    \/ \E op \in ops : CreateComplete(op)
    \/ \E op \in ops : CreateFail(op)
    \/ \E id \in AuctionIds : OpenBidForm(id)
    \/ \E id \in AuctionIds : CancelBidForm(id)
    \/ \E id \in AuctionIds : EditBidAmount(id)
    \/ \E id \in AuctionIds, who \in Bidders, amount \in BidInputs :
          BidSubmit(id, who, amount)
    \/ \E op \in ops : BidComplete(op)
    \/ \E op \in ops : BidFail(op)
    \/ \E id \in AuctionIds : FinalizeClick(id)
    \/ \E op \in ops : FinalizeComplete(op)

Next ==
    \/ Tick
    \/ \E id \in AuctionIds : DismissAlert(id)
    \/ ~AlertOpen /\ Handlers

Spec == Init /\ [][Next]_vars

(***************************************************************************)
(* Properties of the lifecycle (checked under Spec).                       *)
(***************************************************************************)
StoredBids(list, id) ==
    IF HasAuction(list, id) THEN AuctionOf(list, id).bids ELSE <<>>

Settled(list, id) ==
    HasAuction(list, id) /\ isFinalized(AuctionOf(list, id))

IsPrefix(s, t) ==
    /\ Len(s) <= Len(t)
    /\ \A i \in 1..Len(s) : s[i] = t[i]

\* C1: exactly-once settlement.  For every auction, at most one settle ever
\* assigns a winner: onFinalized is called at most once per auction id.
ExactlyOnceSettlement ==
    \A id \in AuctionIds : Len(settleLog[id]) <= 1

\* C2: monotonic lifecycle.  Once an auction's stored status is 'finalized',
\* no step returns it to 'active', removes the auction or changes or removes
\* its winner.
MonotonicLifecycle ==
    [][\A id \in AuctionIds :
          Settled(auctions, id) =>
              /\ Settled(auctions', id)
              /\ AuctionOf(auctions', id).winner = AuctionOf(auctions, id).winner
      ]_vars

\* C3: a bid is appended only while the auction is open.  Whenever a bid
\* submission commits its bid, the stored auction is 'active' and the
\* current time is strictly before its endTime.
BidOnlyWhileOpen ==
    [][\A op \in ops :
          BidComplete(op) =>
              /\ HasAuction(auctions, op.id)
              /\ AuctionOf(auctions, op.id).status = "active"
              /\ now < AuctionOf(auctions, op.id).endTime
      ]_vars

\* C4: no accepted bid is ever lost.  The bid list stored for an auction
\* before a step is a prefix of the bid list stored for it after the step.
AppendOnlyBids ==
    [][\A id \in AuctionIds :
          IsPrefix(StoredBids(auctions, id), StoredBids(auctions', id))
      ]_vars

\* C7: the stored and persisted records hold no clear bid amount: no bid
\* record of any auction carries an `amount`.
NoClearBidAmountStored ==
    \A list \in {auctions, persisted} :
        \A i \in 1..Len(list) :
            \A j \in 1..Len(list[i].bids) :
                list[i].bids[j].amount = NoAmount

\* C8: in every state of the store (and of localStorage) an auction has a
\* winner identity and a winning amount if and only if its status is
\* 'finalized'.
WinnerIffSettled ==
    \A list \in {auctions, persisted} :
        \A i \in 1..Len(list) :
            /\ isFinalized(list[i]) <=> list[i].winner # Undefined
            /\ isFinalized(list[i]) <=> list[i].winningBid # NoAmount
            /\ isFinalized(list[i]) => list[i].winner \in Bidders

\* C8 witness: a settle has gone through: some stored auction is 'finalized'
\* and carries a bidder as winner and the highest amount as winning bid.
WinnerIffSettledWitness ==
    \E i \in 1..Len(auctions) :
        /\ isFinalized(auctions[i])
        /\ auctions[i].winner \in Bidders
        /\ auctions[i].winningBid = MaxAmount
        /\ Len(auctions[i].bids) >= 1

\* C11: settlement never happens before close.  A stored (or persisted)
\* auction is 'finalized' only at a time >= its endTime; a settle is started
\* (the Finalize button is clicked with bids to evaluate) and commits its
\* winner only at a time >= the endTime of the auction it settles.
NoSettleBeforeClose ==
    /\ [](\A list \in {auctions, persisted} :
             \A i \in 1..Len(list) :
                 isFinalized(list[i]) => now >= list[i].endTime)
    /\ [][\A id \in AuctionIds :
             (FinalizeClick(id) /\ ops' # ops) =>
                 now >= AuctionOf(auctions, id).endTime
         ]_vars
    /\ [][\A op \in ops :
             FinalizeComplete(op) =>
                 now >= AuctionOf(op.closure, op.id).endTime
         ]_vars

\* C11 witness: an auction has been settled exactly once, one tick after
\* its endTime, and is stored 'finalized'.
NoSettleBeforeCloseWitness ==
    \E i \in 1..Len(auctions) :
        /\ isFinalized(auctions[i])
        /\ now = auctions[i].endTime + 1
        /\ Len(settleLog[auctions[i].id]) = 1

\* C12: a settled record is never mutated again.  Once an auction is stored
\* 'finalized', every later step leaves its record in the store with the
\* same bid list, status, winner and winning amount.
SettledRecordImmutable ==
    [][\A id \in AuctionIds :
          Settled(auctions, id) =>
              /\ HasAuction(auctions', id)
              /\ AuctionOf(auctions', id).bids = AuctionOf(auctions, id).bids
              /\ AuctionOf(auctions', id).status = AuctionOf(auctions, id).status
              /\ AuctionOf(auctions', id).winner = AuctionOf(auctions, id).winner
              /\ AuctionOf(auctions', id).winningBid =
                     AuctionOf(auctions, id).winningBid
      ]_vars

\* C13: operations on different auction ids are independent.  A step that
\* commits a bid submission or a settle of one auction, or the creation of
\* an auction, leaves every other stored auction in the store, unchanged.
CrossAuctionIndependence ==
    [][\A op \in ops :
          (BidComplete(op) \/ FinalizeComplete(op) \/ CreateComplete(op)) =>
              \A id \in AuctionIds \ {op.id} :
                  HasAuction(auctions, id) =>
                      /\ HasAuction(auctions', id)
                      /\ AuctionOf(auctions', id) = AuctionOf(auctions, id)
      ]_vars

\* C16: bid-too-low rejection.  A submission whose amount is not a number,
\* is not positive or is below the auction's minimumBid shows an error,
\* starts nothing and leaves the store alone; a submission with any other
\* amount, the minimumBid itself included, goes in flight without error and,
\* when it commits, stores the bid list it saw plus exactly its own bid.
BidTooLowRejected ==
    /\ [][\A id \in AuctionIds :
             (cards[id].showBidForm /\ cards'[id] # cards[id]) =>
                 \A who \in Bidders, amount \in BidInputs :
                     BidSubmit(id, who, amount) =>
                         IF \/ amount = NaN
                            \/ amount <= 0
                            \/ amount < AuctionOf(auctions, id).minimumBid
                         THEN /\ cards'[id].error = "invalid"
                              /\ ops' = ops
                              /\ auctions' = auctions
                              /\ persisted' = persisted
                         ELSE /\ cards'[id].error = NoError
                              /\ \E op \in ops' \ ops :
                                    /\ op.kind = "bid"
                                    /\ op.id = id
                                    /\ op.amount = amount
         ]_vars
    /\ [][\A op \in ops :
             BidComplete(op) =>
                 /\ op.amount >= AuctionOf(op.closure, op.id).minimumBid
                 /\ StoredBids(auctions', op.id) =
                        Append(AuctionOf(op.closure, op.id).bids,
                               NewBid(op.who, op.amount))
         ]_vars

\* C16 witness: a bid of exactly the minimumBid is stored, and the form of
\* another auction shows the error of a rejected submission.
BidTooLowRejectedWitness ==
    \E i, j \in 1..Len(auctions) :
        /\ Len(auctions[i].bids) = 1
        /\ auctions[i].bids[1].amount = auctions[i].minimumBid
        /\ auctions[j].minimumBid = MaxAmount
        /\ cards[auctions[j].id].error = "invalid"
        /\ Len(auctions[j].bids) = 0

\* C17: settling a closed auction without bids.  A click on Finalize for an
\* auction with zero bids shows the no-bids alert, starts no settle and
\* leaves store, localStorage and settlements as they are; no settle ever
\* assigns a winner that is not a bidder, and no stored 'finalized' auction
\* has an empty bid list.
EmptyBidSetOutcome ==
    /\ [][\A id \in AuctionIds :
             (FinalizeClick(id) /\ Len(AuctionOf(auctions, id).bids) = 0) =>
                 /\ cards'[id].noBidsAlert
                 /\ ops' = ops
                 /\ auctions' = auctions
                 /\ persisted' = persisted
                 /\ settleLog' = settleLog
         ]_vars
    /\ [](\A id \in AuctionIds :
             /\ \A k \in 1..Len(settleLog[id]) : settleLog[id][k][1] \in Bidders
             /\ Settled(auctions, id) => Len(AuctionOf(auctions, id).bids) > 0)

\* C17 witness: the no-bids alert has been shown for a closed auction that
\* is still 'active', without bids and without winner.
EmptyBidSetOutcomeWitness ==
    \E i \in 1..Len(auctions) :
        /\ cards[auctions[i].id].noBidsAlert
        /\ now >= auctions[i].endTime
        /\ auctions[i].status = "active"
        /\ Len(auctions[i].bids) = 0
        /\ auctions[i].winner = Undefined
        /\ settleLog[auctions[i].id] = <<>>

\* C18: createAuction rejects invalid input.  Every step that is a
\* submission of the create form with an empty item name or description, a
\* minimum bid <= 0 or an end time not after the current time shows errors,
\* starts no creation and leaves the store alone; every creation in flight
\* and every stored or persisted auction has minimumBid > 0 and endTime > 0.
CreateRejectsInvalidInput ==
    /\ [][\/ /\ creator'.errors
              /\ ops' = ops
              /\ nextId' = nextId
              /\ auctions' = auctions
              /\ persisted' = persisted
           \/ \A textOk \in BOOLEAN, who \in Creators, minBid \in 0..MaxAmount,
                 endTime \in 0..MaxEndTime :
                  (~textOk \/ minBid <= 0 \/ endTime <= now) =>
                      ~CreateSubmit(textOk, who, minBid, endTime)
         ]_vars
    /\ [](/\ \A op \in ops :
                op.kind = "create" => op.amount > 0 /\ op.endTime > 0
           /\ \A list \in {auctions, persisted} :
                \A i \in 1..Len(list) :
                    list[i].minimumBid > 0 /\ list[i].endTime > 0)

\* C18 witness: the create form shows errors after a rejected submission
\* while an auction created earlier with the smallest valid minimum bid is
\* in the store.
CreateRejectsInvalidInputWitness ==
    /\ creator.showCreateForm
    /\ creator.errors
    /\ ~creator.isSubmitting
    /\ ops = {}
    /\ Len(auctions) = 1
    /\ auctions[1].minimumBid = 1

TimestampsStrictlyIncreasing ==
    \A list \in {auctions, persisted} :
        \A i \in 1..Len(list) :
            \A j, k \in 1..Len(list[i].bids) :
                j < k => list[i].bids[j].timestamp < list[i].bids[k].timestamp

\* C21 witness: an auction is stored with two bids of the same amount.
TimestampsStrictlyIncreasingWitness ==
    \E i \in 1..Len(auctions) :
        /\ Len(auctions[i].bids) = 2
        /\ auctions[i].bids[1].amount = auctions[i].bids[2].amount

\* The fields of an auction record that AuctionCreator.handleSubmit fixes.
IdentityOf(a) == <<a.id, a.creator, a.minimumBid, a.endTime>>

\* Every `auctions` value at hand: the store, localStorage and the closures
\* of the handlers in flight.
AuctionLists == {auctions, persisted} \cup {op.closure : op \in ops}

\* C22: the identity fields fixed at creation (id, creator, minimumBid,
\* endTime) never change.  All records with one id, in the store, in
\* localStorage and in the closure of any handler in flight, have the same
\* identity fields, and no step changes them in the store; the record that a
\* bid submission writes differs from the auction it was given only in
\* `bids`, the record that a settle writes only in status, winner and
\* winningBid.
IdentityFieldsFixed ==
    /\ [](\A l1, l2 \in AuctionLists :
             \A i \in 1..Len(l1), j \in 1..Len(l2) :
                 l1[i].id = l2[j].id => IdentityOf(l1[i]) = IdentityOf(l2[j]))
    /\ [][auctions' # auctions =>
             \A id \in AuctionIds :
                 (HasAuction(auctions, id) /\ HasAuction(auctions', id)) =>
                     IdentityOf(AuctionOf(auctions', id)) =
                         IdentityOf(AuctionOf(auctions, id))
         ]_vars
    /\ [][auctions' # auctions =>
             \A op \in ops :
                 /\ BidComplete(op) =>
                       \A f \in DOMAIN AuctionOf(op.closure, op.id) \ {"bids"} :
                           AuctionOf(auctions', op.id)[f] =
                               AuctionOf(op.closure, op.id)[f]
                 /\ FinalizeComplete(op) =>
                       \A f \in DOMAIN AuctionOf(op.closure, op.id) \
                                 {"status", "winner", "winningBid"} :
                           AuctionOf(auctions', op.id)[f] =
                               AuctionOf(op.closure, op.id)[f]
         ]_vars

\* C22 witness: an auction created with minimumBid MaxAmount and endTime 2
\* has taken a bid and has been settled after its endTime.
IdentityFieldsFixedWitness ==
    \E i \in 1..Len(auctions) :
        /\ isFinalized(auctions[i])
        /\ Len(auctions[i].bids) >= 1
        /\ auctions[i].minimumBid = MaxAmount
        /\ auctions[i].endTime = 2
        /\ now > auctions[i].endTime

\* C25: every auction is active when it enters the store.  Whenever an
\* auction creation commits its auction (after its awaits), the current time
\* is strictly before the auction's endTime.
ActiveWhenStored ==
    [][\A op \in ops : CreateComplete(op) => now < op.endTime]_vars

\* AuctionList: the counts shown on the filter buttons, at clock value t.
ActiveCount(list, t) ==
    Cardinality({i \in 1..Len(list) :
                    t < list[i].endTime /\ list[i].status # "finalized"})
EndedCount(list, t) ==
    Cardinality({i \in 1..Len(list) :
                    t >= list[i].endTime /\ list[i].status # "finalized"})
FinalizedCount(list) ==
    Cardinality({i \in 1..Len(list) : list[i].status = "finalized"})

\* AuctionList filteredAuctions: the filter that shows this auction at t.
ClassOf(auction, t) ==
    IF isFinalized(auction) THEN "finalized"
    ELSE IF isEndedAt(t, auction) THEN "ended"
    ELSE "active"

ClassRank(class) ==
    CASE class = "active" -> 1
      [] class = "ended" -> 2
      [] OTHER -> 3

\* C30: at every instant the three filter counts sum to the number of stored
\* auctions (each auction is in exactly one of the classes active, ended,
\* finalized), and from one state to the next a stored auction stays in its
\* class or moves forward, active -> ended -> finalized.
AuctionClassesForward ==
    /\ [](ActiveCount(auctions, now) + EndedCount(auctions, now) +
              FinalizedCount(auctions) = Len(auctions))
    /\ [][\A id \in AuctionIds :
             (HasAuction(auctions, id) /\ HasAuction(auctions', id)) =>
                 LET before == ClassRank(ClassOf(AuctionOf(auctions, id), now))
                     after == ClassRank(ClassOf(AuctionOf(auctions', id), now'))
                 IN after \in {before, before + 1}
         ]_vars

(***************************************************************************)
(* SpecEval: the winner loop of WinnerReveal.handleFinalize, one iteration *)
(* of bids.forEach per step, on every bid list of up to MaxEvalBids bids.  *)
(* The list is the `auction.bids` prop: records built by                   *)
(* BidSubmission.handleSubmit (amount > 0 after validateBid) that App      *)
(* reads back from localStorage, in whatever order they are stored.        *)
(***************************************************************************)
MaxEvalBids == 3
EvalTimes == {50, 100}

EvalBids == [bidder : Bidders, amount : 1..MaxAmount, timestamp : EvalTimes]
BidLists == UNION {[1..n -> EvalBids] : n \in 1..MaxEvalBids}

InitEval ==
    /\ InitLifecycle
    /\ cx = CxIdle
    /\ \E bids \in BidLists :
          ev = [bids |-> bids, i |-> 0, maxBid |-> WinnerInit.maxBid,
                winnerAddress |-> WinnerInit.winnerAddress]

EvalStepConsuming ==
    /\ ev.bids # <<>>
    /\ LET acc == WinnerStep([maxBid |-> ev.maxBid,
                              winnerAddress |-> ev.winnerAddress],
                             Head(ev.bids))
       IN ev' = [ev EXCEPT !.bids = Tail(ev.bids), !.maxBid = acc.maxBid,
                           !.winnerAddress = acc.winnerAddress]
    /\ UNCHANGED <<lifecycleVars, cx>>
EvalStep ==
    /\ ev.i < Len(ev.bids)
    /\ LET acc == WinnerStep([maxBid |-> ev.maxBid,
                              winnerAddress |-> ev.winnerAddress],
                             ev.bids[ev.i + 1])
       IN ev' = [ev EXCEPT !.i = ev.i + 1, !.maxBid = acc.maxBid,
                           !.winnerAddress = acc.winnerAddress]
    /\ UNCHANGED <<lifecycleVars, cx>>

NextEval == EvalStep

SpecEval == InitEval /\ [][NextEval]_vars

EvalDone == ev.i = Len(ev.bids) /\ Len(ev.bids) > 0

\* C9: winner selection.  After the loop over a non-empty bid list, the
\* winning amount is the maximum amount of the list and the winner is the
\* bidder of a bid with that amount.
WinnerIsMaxBid ==
    EvalDone =>
        /\ \A j \in 1..Len(ev.bids) : ev.bids[j].amount <= ev.maxBid
        /\ \E j \in 1..Len(ev.bids) :
              /\ ev.bids[j].amount = ev.maxBid
              /\ ev.bids[j].bidder = ev.winnerAddress

\* C9 witness: the loop has run over a list whose maximum is not its first
\* bid and is bid by another bidder than the first.
WinnerIsMaxBidWitness ==
    /\ EvalDone
    /\ Len(ev.bids) >= 2
    /\ ev.bids[1].amount < ev.maxBid
    /\ ev.bids[1].bidder # ev.winnerAddress

\* C10: winner tie-break.  After the loop, the winner is the bidder of a bid
\* that has the maximum amount and, among the bids with the maximum amount,
\* the earliest timestamp, wherever that bid stands in the list.
TieBreakEarliestTimestamp ==
    EvalDone =>
        \E j \in 1..Len(ev.bids) :
            /\ ev.bids[j].bidder = ev.winnerAddress
            /\ ev.bids[j].amount = ev.maxBid
            /\ \A k \in 1..Len(ev.bids) :
                  ev.bids[k].amount = ev.maxBid =>
                      ev.bids[j].timestamp <= ev.bids[k].timestamp

\* C24: winner evaluation does not mutate its input.  No iteration of the
\* winner loop changes the bid list it runs over: same length, same order,
\* same fields of every bid.
EvaluationLeavesBids ==
    [][ev'.bids = ev.bids]_vars

\* C24 witness: the loop has run to the end of a list of MaxEvalBids bids in
\* which the last bid took the lead from a bid before it.
EvaluationLeavesBidsWitness ==
    /\ EvalDone
    /\ Len(ev.bids) = MaxEvalBids
    /\ ev.bids[MaxEvalBids].amount = ev.maxBid
    /\ ev.bids[MaxEvalBids].bidder = ev.winnerAddress
    /\ ev.bids[MaxEvalBids - 1].amount < ev.maxBid

(***************************************************************************)
(* SpecCipher: two key pairs A and B from generateX25519Keypair, the key   *)
(* exchange in both directions, then encrypt and decrypt of one value      *)
(* under A's shared secret with one nonce (encryptBid, decryptResult).     *)
(***************************************************************************)
InitCipher ==
    /\ InitLifecycle
    /\ ev = EvIdle
    /\ \E sa \in 0..MaxSeed, sb \in 0..MaxSeed, sn \in 0..MaxSeed,
          v \in Plaintexts :
          cx = [stage |-> "input",
                privA |-> RandomBytes(sa, BlockLen),
                privB |-> RandomBytes(sb, BlockLen),
                nonce |-> RandomBytes(sn, NonceLen),
                value |-> v,
                pubA |-> <<>>, pubB |-> <<>>,
                sharedAB |-> <<>>, sharedBA |-> <<>>,
                ciphertext |-> <<>>, plaintext |-> <<>>]

\* generateX25519Keypair, for A and for B.
GenerateKeypairs ==
    /\ cx.stage = "input"
    /\ cx' = [cx EXCEPT !.stage = "keys",
                        !.pubA = PublicKeyOf(cx.privA),
                        !.pubB = PublicKeyOf(cx.privB)]
    /\ UNCHANGED <<lifecycleVars, ev>>

\* performKeyExchange(A.privateKey, B.publicKey) and
\* performKeyExchange(B.privateKey, A.publicKey).
KeyExchange ==
    /\ cx.stage = "keys"
    /\ cx' = [cx EXCEPT !.stage = "exchanged",
                        !.sharedAB = performKeyExchange(cx.privA, cx.pubB),
                        !.sharedBA = performKeyExchange(cx.privB, cx.pubA)]
    /\ UNCHANGED <<lifecycleVars, ev>>

\* new SimplifiedRescueCipher(sharedSecret).encrypt(value, nonce).
Encrypt ==
    /\ cx.stage = "exchanged"
    /\ cx' = [cx EXCEPT !.stage = "encrypted",
                        !.ciphertext = encrypt(cx.sharedAB, cx.value, cx.nonce)]
    /\ UNCHANGED <<lifecycleVars, ev>>

\* new SimplifiedRescueCipher(sharedSecret).decrypt(ciphertext, nonce).
Decrypt ==
    /\ cx.stage = "encrypted"
    /\ cx' = [cx EXCEPT !.stage = "decrypted",
                        !.plaintext = decrypt(cx.sharedAB, cx.ciphertext, cx.nonce)]
    /\ UNCHANGED <<lifecycleVars, ev>>

NextCipher ==
    \/ GenerateKeypairs
    \/ KeyExchange
    \/ Encrypt
    \/ Decrypt

SpecCipher == InitCipher /\ [][NextCipher]_vars

\* C5: seal/unseal round trip.  Decrypting the ciphertext of a value under
\* the same shared secret and nonce returns the value.
SealUnsealRoundTrip ==
    cx.stage = "decrypted" => cx.plaintext = cx.value

\* C6: shared-secret symmetry.  The two directions of the key exchange
\* between key pairs A and B give the same 32 bytes.
SharedSecretSymmetry ==
    cx.stage \in {"exchanged", "encrypted", "decrypted"} =>
        cx.sharedAB = cx.sharedBA

\* C15: only the holder of a private key recovers a sealed bid.  What an
\* observer computes from the public fields of the sealed bid (ciphertext,
\* sender public key, nonce) and the recipient's public key alone differs
\* from what the key holder's decryptResult returns.
OnlyKeyHolderRecovers ==
    cx.stage = "decrypted" =>
        decrypt(performKeyExchange(InvertPublicKey(cx.pubA), cx.pubB),
                cx.ciphertext, cx.nonce) # cx.plaintext

(***************************************************************************)
(* SpecWrongKey: encryptBid seals a value under one shared secret, then    *)
(* decryptResult is called by the holder of another private key, whose     *)
(* shared secret performKeyExchange(userPrivateKey, mxePublicKey) is some  *)
(* other 32 bytes: here the sealing secret with up to two bytes changed.   *)
(***************************************************************************)
InitWrongKey ==
    /\ InitLifecycle
    /\ ev = EvIdle
    /\ \E sk \in 0..MaxSeed, sn \in 0..MaxSeed, v \in Plaintexts :
          cx = [stage |-> "input",
                key |-> RandomBytes(sk, BlockLen),
                nonce |-> RandomBytes(sn, NonceLen),
                value |-> v,
                ciphertext |-> <<>>, wrongKey |-> <<>>,
                wrongPlaintext |-> <<>>]

\* new SimplifiedRescueCipher(sharedSecret).encrypt(value, nonce).
SealValue ==
    /\ cx.stage = "input"
    /\ cx' = [cx EXCEPT !.stage = "sealed",
                        !.ciphertext = encrypt(cx.key, cx.value, cx.nonce)]
    /\ UNCHANGED <<lifecycleVars, ev>>

\* decryptResult with the other shared secret.
UnsealWrongKey(p, a, q, b) ==
    /\ cx.stage = "sealed"
    /\ p <= q
    /\ LET wrong == WrongKey(cx.key, p, a, q, b)
       IN /\ wrong # cx.key
          /\ cx' = [cx EXCEPT !.stage = "unsealed",
                              !.wrongKey = wrong,
                              !.wrongPlaintext =
                                  decrypt(wrong, cx.ciphertext, cx.nonce)]
    /\ UNCHANGED <<lifecycleVars, ev>>

NextWrongKey ==
    \/ SealValue
    \/ \E p \in 1..BlockLen, q \in 1..BlockLen, a \in 1..MaxDelta,
          b \in 0..MaxDelta : UnsealWrongKey(p, a, q, b)

SpecWrongKey == InitWrongKey /\ [][NextWrongKey]_vars

\* C14: confidentiality under a wrong key.  Decrypting the ciphertext of a
\* value with a shared secret different from the sealing one, same nonce,
\* does not return the value.
WrongKeyNeverRecovers ==
    cx.stage = "unsealed" => cx.wrongPlaintext # cx.value

(***************************************************************************)
(* SpecRange: SimplifiedRescueCipher.encrypt on values inside and outside  *)
(* the range of the 32-byte block.  BidSubmission.handleSubmit seals       *)
(* BigInt(Math.floor(amount * 1e9)), which passes 2^256 for amounts from   *)
(* about 1.2e68 on.                                                        *)
(***************************************************************************)
\* 2^256, 2^256 + 1 and the 33-byte value with every byte 1.
OutOfRange ==
    {[k \in 1..(BlockLen + 1) |-> IF k = 1 THEN 1 ELSE 0],
     [k \in 1..(BlockLen + 1) |-> IF k \in {1, BlockLen + 1} THEN 1 ELSE 0],
     [k \in 1..(BlockLen + 1) |-> 1]}

InitRange ==
    /\ InitLifecycle
    /\ ev = EvIdle
    /\ \E sk \in 0..MaxSeed, sn \in 0..MaxSeed,
          v \in Plaintexts \cup OutOfRange :
          cx = [stage |-> "input",
                key |-> RandomBytes(sk, BlockLen),
                nonce |-> RandomBytes(sn, NonceLen),
                value |-> v,
                ciphertext |-> <<>>]

\* new SimplifiedRescueCipher(sharedSecret).encrypt(value, nonce).
SealAnyValue ==
    /\ cx.stage = "input"
    /\ cx' = [cx EXCEPT !.stage = "sealed",
                        !.ciphertext = encrypt(cx.key, cx.value, cx.nonce)]
    /\ UNCHANGED <<lifecycleVars, ev>>

NextRange == SealAnyValue

SpecRange == InitRange /\ [][NextRange]_vars

\* C19: sealing a value >= 2^256 fails.  encrypt applied to a value that
\* needs more than 32 bytes does not hand back the ciphertext of a value
\* that fits the block.
OutOfRangeSealFails ==
    (cx.stage = "sealed" /\ Len(cx.value) > BlockLen) =>
        \A w \in Plaintexts : cx.ciphertext # encrypt(cx.key, w, cx.nonce)

(***************************************************************************)
(* SpecSeal: encryptBid on amounts inside and outside the block's range,   *)
(* then verifyEncryption on its output as it is, or on the output with one *)
(* field removed or of another length.                                     *)
(***************************************************************************)
\* getMXEPublicKey: mockPublicKey[i] = (i * 7 + 42) % 256.
getMXEPublicKey == [k \in 1..BlockLen |-> (((k - 1) * 7) + 42) % Byte]

\* encryptBid with the bytes that crypto.getRandomValues hands to
\* generateX25519Keypair (privateKey) and to the nonce.
encryptBid(bidAmount, privateKey, nonce) ==
    LET sharedSecret == performKeyExchange(privateKey, getMXEPublicKey)
    IN [ciphertext |-> encrypt(sharedSecret, bidAmount, nonce),
        publicKey |-> PublicKeyOf(privateKey),
        nonce |-> nonce]

\* verifyEncryption: every field present, lengths 32, 32 and 16.
verifyEncryptionAnyLength(encryptedData) ==
    /\ "ciphertext" \in DOMAIN encryptedData
    /\ "publicKey" \in DOMAIN encryptedData
    /\ "nonce" \in DOMAIN encryptedData
verifyEncryption(encryptedData) ==
    IF \/ "ciphertext" \notin DOMAIN encryptedData
       \/ "publicKey" \notin DOMAIN encryptedData
       \/ "nonce" \notin DOMAIN encryptedData
    THEN FALSE
    ELSE IF Len(encryptedData.ciphertext) # 32 THEN FALSE
    ELSE IF Len(encryptedData.publicKey) # 32 THEN FALSE
    ELSE IF Len(encryptedData.nonce) # 16 THEN FALSE
    ELSE TRUE

SealFields == {"ciphertext", "publicKey", "nonce"}
Damages == {"missing", "empty", "shorter", "longer"}

\* A sealed bid with one field removed or of another length.
Damage(encryptedData, field, how) ==
    IF how = "missing"
    THEN [f \in DOMAIN encryptedData \ {field} |-> encryptedData[f]]
    ELSE [encryptedData EXCEPT ![field] =
             CASE how = "empty" -> <<>>
               [] how = "shorter" -> SubSeq(@, 1, Len(@) - 1)
               [] OTHER -> Append(@, 0)]

InitSeal ==
    /\ InitLifecycle
    /\ ev = EvIdle
    /\ \E sk \in 0..MaxSeed, sn \in 0..MaxSeed,
          v \in Plaintexts \cup OutOfRange :
          cx = [stage |-> "input",
                privateKey |-> RandomBytes(sk, BlockLen),
                nonce |-> RandomBytes(sn, NonceLen),
                value |-> v,
                sealed |-> <<>>, damaged |-> FALSE, verdict |-> FALSE]

\* encryptBid(bidAmount).
EncryptBid ==
    /\ cx.stage = "input"
    /\ cx' = [cx EXCEPT !.stage = "sealed",
                        !.sealed = encryptBid(cx.value, cx.privateKey, cx.nonce)]
    /\ UNCHANGED <<lifecycleVars, ev>>

\* The sealed bid reaches verifyEncryption with one field lost or resized.
DamageSealed(field, how) ==
    /\ cx.stage = "sealed"
    /\ ~cx.damaged
    /\ cx' = [cx EXCEPT !.sealed = Damage(cx.sealed, field, how),
                        !.damaged = TRUE]
    /\ UNCHANGED <<lifecycleVars, ev>>

\* verifyEncryption(encryptedData).
VerifySealed ==
    /\ cx.stage = "sealed"
    /\ cx' = [cx EXCEPT !.stage = "verified",
                        !.verdict = verifyEncryption(cx.sealed)]
    /\ UNCHANGED <<lifecycleVars, ev>>

NextSeal ==
    \/ EncryptBid
    \/ \E field \in SealFields, how \in Damages : DamageSealed(field, how)
    \/ VerifySealed

SpecSeal == InitSeal /\ [][NextSeal]_vars

\* C23: every encryptBid output has a ciphertext of 32 bytes, a sender
\* public key of 32 bytes and a nonce of 16 bytes, whatever the amount;
\* verifyEncryption returns true on it, and false once a field is missing
\* or has another length.
SealedSizesFixed ==
    /\ (cx.stage = "sealed" /\ ~cx.damaged) =>
           /\ Len(cx.sealed.ciphertext) = BlockLen
           /\ Len(cx.sealed.publicKey) = BlockLen
           /\ Len(cx.sealed.nonce) = NonceLen
    /\ cx.stage = "verified" => (cx.verdict <=> ~cx.damaged)

\* C23 witness: verifyEncryption has returned true on the sealed bid of an
\* amount >= 2^256.
SealedSizesFixedWitness ==
    /\ cx.stage = "verified"
    /\ ~cx.damaged
    /\ cx.verdict
    /\ Len(cx.value) > BlockLen

(***************************************************************************)
(* SpecPair: SimplifiedRescueCipher.encrypt on two different amounts of    *)
(* the encodable range under one shared secret and one nonce.              *)
(***************************************************************************)
InitPair ==
    /\ InitLifecycle
    /\ ev = EvIdle
    /\ \E sk \in 0..MaxSeed, sn \in 0..MaxSeed,
          v1 \in Plaintexts, v2 \in Plaintexts :
          /\ v1 # v2
          /\ cx = [stage |-> "input",
                   key |-> RandomBytes(sk, BlockLen),
                   nonce |-> RandomBytes(sn, NonceLen),
                   value1 |-> v1, value2 |-> v2,
                   ciphertext1 |-> <<>>, ciphertext2 |-> <<>>]

\* cipher.encrypt(value1, nonce) and cipher.encrypt(value2, nonce).
SealPair ==
    /\ cx.stage = "input"
    /\ cx' = [cx EXCEPT !.stage = "sealed",
                        !.ciphertext1 = encrypt(cx.key, cx.value1, cx.nonce),
                        !.ciphertext2 = encrypt(cx.key, cx.value2, cx.nonce)]
    /\ UNCHANGED <<lifecycleVars, ev>>

NextPair == SealPair

SpecPair == InitPair /\ [][NextPair]_vars

\* C26: sealing is injective on the encodable range.  Under one shared
\* secret and one nonce, two different amounts below 2^256 never get the
\* same 32-byte ciphertext.
SealingInjective ==
    cx.stage = "sealed" => cx.ciphertext1 # cx.ciphertext2

(***************************************************************************)
(* SpecSettle: the lifecycle from a store that holds one auction with one  *)
(* bid, at or one tick before its endTime, with fairness for what runs     *)
(* without the user: the clock advances; a timer whose delay is over runs  *)
(* its callback as soon as no alert dialog blocks the page; an alert       *)
(* dialog, being modal, is dismissed before anything else can be done.     *)
(***************************************************************************)
InitSettle ==
    /\ now = 2
    /\ \E endTime \in 2..MaxEndTime, who \in Bidders, amount \in 1..MaxAmount :
          auctions = <<[NewAuction(1, "C", 1, endTime) EXCEPT
                          !.bids = <<NewBid(who, amount)>>]>>
    /\ persisted = auctions
    /\ nextId = 1
    /\ ops = {}
    /\ cards = RenderAll(auctions, [id \in AuctionIds |-> NoCard], now)
    /\ creator = NoCreator
    /\ settleLog = [id \in AuctionIds |-> <<>>]
    /\ ev = EvIdle
    /\ cx = CxIdle

\* The staged timers of the settles of one auction.
SettleTimers(id) ==
    /\ ~AlertOpen
    /\ \E op \in ops : op.id = id /\ FinalizeComplete(op)

SettleFairness ==
    /\ WF_vars(Tick)
    /\ WF_vars(\E id \in AuctionIds : DismissAlert(id))
    /\ \A id \in AuctionIds : SF_vars(SettleTimers(id))

SpecSettle == InitSettle /\ [][Next]_vars /\ SettleFairness

\* A settle of this auction is in flight and its timers can run to the end
\* within the clock's range.
SettleInFlight(id) ==
    \E op \in ops : /\ op.kind = "finalize"
                    /\ op.id = id
                    /\ (op.waited \/ now < MaxTime)

SettledWithWinner(id) ==
    /\ Settled(auctions, id)
    /\ \E k \in 1..Len(AuctionOf(auctions, id).bids) :
          AuctionOf(auctions, id).bids[k].bidder = AuctionOf(auctions, id).winner

\* C27: liveness of settlement.  Once a settle of an auction is in flight
\* (Finalize was clicked on the ended auction with at least one bid), the
\* staged computation ends, and the auction's stored status becomes
\* 'finalized' with the bidder of one of its stored bids as winner.
SettleTerminates ==
    \A id \in AuctionIds :
        /\ SettleInFlight(id) ~> ~SettleInFlight(id)
        /\ SettleInFlight(id) ~> SettledWithWinner(id)

\* C27 witness: a settle has run to its end: the auction is stored
\* 'finalized' with one of its bidders as winner, one settle is logged and
\* nothing is in flight.
SettleTerminatesWitness ==
    \E id \in AuctionIds :
        /\ SettledWithWinner(id)
        /\ Len(settleLog[id]) = 1
        /\ ops = {}

(***************************************************************************)
(* SpecReload: the lifecycle with page reloads.  A reload ends every       *)
(* handler in flight, mounts every component afresh and runs App's load    *)
(* effect: setAuctions(JSON.parse(localStorage.getItem('arcium_auctions')))*)
(* of what the last handleCreateAuction or handleUpdateAuction stored with *)
(* JSON.stringify.                                                         *)
(***************************************************************************)
AuctionFields == {"id", "creator", "minimumBid", "endTime", "bids", "status",
                  "winner", "winningBid"}

\* JSON.stringify leaves out the properties an object does not have: an
\* auction that is not settled has neither winner nor winningBid.
StringifyAuction(a) ==
    IF a.winner = Undefined
    THEN [f \in DOMAIN a \ {"winner", "winningBid"} |-> a[f]]
    ELSE a

JSONStringify(list) == [i \in 1..Len(list) |-> StringifyAuction(list[i])]

\* JSON.parse; reading a property the parsed object does not have gives
\* undefined.
ParseAuctionKeepsNothing(r) ==
    [f \in AuctionFields |->
        CASE f = "winner" -> Undefined
          [] f = "winningBid" -> NoAmount
          [] f = "bids" -> <<>>
          [] f = "status" -> "active"
          [] OTHER -> r[f]]
ParseAuction(r) ==
    [f \in AuctionFields |->
        IF f \in DOMAIN r THEN r[f]
        ELSE IF f = "winner" THEN Undefined ELSE NoAmount]

JSONParse(text) == [i \in 1..Len(text) |-> ParseAuction(text[i])]

\* The page is loaded again.
Reload ==
    /\ auctions' = JSONParse(JSONStringify(persisted))
    /\ ops' = {}
    /\ cards' = RenderAll(auctions', [id \in AuctionIds |-> NoCard], now)
    /\ creator' = NoCreator
    /\ UNCHANGED <<now, persisted, nextId, settleLog, ev, cx>>

NextReload ==
    \/ Next
    \/ ~AlertOpen /\ Reload

SpecReload == Init /\ [][NextReload]_vars

\* C28: the persisted auction list equals the in-memory list after every
\* completed createAuction or update (in every state, in fact), and a
\* reload restores exactly the auctions, bids, statuses and winners of the
\* in-memory list it replaces.
PersistedEqualsStore ==
    /\ [](persisted = auctions)
    /\ [][(ops' = {} /\ creator' = NoCreator /\ persisted' = persisted) =>
             (Reload => auctions' = auctions)
         ]_vars

\* C28 witness: a creation, a bid submission and a settle have completed and
\* nothing is in flight: the store holds a settled auction with a bid and a
\* winner, and localStorage holds the same list for the next reload.
PersistedEqualsStoreWitness ==
    /\ ops = {}
    /\ nextId = MaxAuctions
    /\ Len(auctions) = 1
    /\ isFinalized(auctions[1])
    /\ auctions[1].winner \in Bidders
    /\ Len(auctions[1].bids) >= 1
    /\ persisted = auctions

(***************************************************************************)
(* SpecOnChain: the bid form of the on-chain variant of BidSubmission.     *)
(* Its handleSubmit awaits getWalletBalance before setIsEncrypting(true);  *)
(* until the balance arrives the form is as it was: input, submit button   *)
(* and Cancel enabled.  An in-flight handler of kind "balance" is one that *)
(* awaits the balance; it goes on as a handler of kind "bid".  The store   *)
(* holds one auction without bids, one tick before its endTime.            *)
(***************************************************************************)
InitOnChain ==
    /\ now = MaxEndTime - 1
    /\ \E minBid \in 1..MaxAmount :
          auctions = <<NewAuction(1, "C", minBid, MaxEndTime)>>
    /\ persisted = auctions
    /\ nextId = 1
    /\ ops = {}
    /\ cards = RenderAll(auctions, [id \in AuctionIds |-> NoCard], now)
    /\ creator = NoCreator
    /\ settleLog = [id \in AuctionIds |-> <<>>]
    /\ ev = EvIdle
    /\ cx = CxIdle

\* BidSubmission.handleSubmit (on-chain variant) up to its first await,
\* getWalletBalance; the submit button is disabled while isEncrypting or
\* while the amount field is empty.
SubmitOnChain(id, who, amount) ==
    /\ HasAuction(auctions, id)
    /\ cards[id].showBidForm
    /\ ~cards[id].isEncrypting
    /\ IF ~validateBid(amount, AuctionOf(auctions, id).minimumBid)
       THEN /\ cards' = [cards EXCEPT ![id].error = "invalid"]
            /\ UNCHANGED ops
       ELSE /\ Cardinality(ops) < MaxOps
            /\ ops' = ops \cup {Op("balance", id, who, amount, 0)}
            /\ cards' = [cards EXCEPT ![id].error = NoError]
    /\ UNCHANGED <<now, auctions, persisted, nextId, creator, settleLog, ev, cx>>

\* getWalletBalance resolves: with balance < amount handleSubmit throws and
\* its catch block reports it; otherwise setIsEncrypting(true) and the
\* staged timers start.
BalanceChecked(op, enough) ==
    /\ op.kind = "balance"
    /\ IF enough
       THEN /\ ops' = (ops \ {op}) \cup {[op EXCEPT !.kind = "bid"]}
            /\ cards' = IF op.live
                        THEN [cards EXCEPT ![op.id].isEncrypting = TRUE]
                        ELSE cards
       ELSE /\ ops' = ops \ {op}
            /\ cards' = IF op.live
                        THEN [cards EXCEPT ![op.id].isEncrypting = FALSE,
                                           ![op.id].error = "failed"]
                        ELSE cards
    /\ UNCHANGED <<now, auctions, persisted, nextId, creator, settleLog, ev, cx>>

\* BidSubmission: the Cancel button, disabled while isEncrypting; the form
\* is unmounted with a handler that awaits the balance still in flight.
CancelOnChain(id) ==
    /\ cards[id].showBidForm
    /\ ~cards[id].isEncrypting
    /\ cards' = [cards EXCEPT ![id] =
                    RenderCard(auctions, id, [@ EXCEPT !.showBidForm = FALSE], now)]
    /\ ops' = Orphan(ops, cards', creator)
    /\ UNCHANGED <<now, auctions, persisted, nextId, creator, settleLog, ev, cx>>

NextOnChain ==
    \/ Tick
    \/ \E id \in AuctionIds : OpenBidForm(id)
    \/ \E id \in AuctionIds : CancelOnChain(id)
    \/ \E id \in AuctionIds : EditBidAmount(id)
    \/ \E id \in AuctionIds, who \in Bidders, amount \in -1..MaxAmount :
          SubmitOnChain(id, who, amount)
    \/ \E op \in ops, enough \in BOOLEAN : BalanceChecked(op, enough)
    \/ \E op \in ops : BidComplete(op)
    \/ \E op \in ops : BidFail(op)

SpecOnChain == InitOnChain /\ [][NextOnChain]_vars

\* The submissions in flight that were started from the bid form now
\* mounted in this auction's card.
SubmissionsOfForm(id) ==
    {op \in ops : op.kind \in {"balance", "bid"} /\ op.id = id /\ op.live}

\* C29: while a submission started from a bid form is in flight, no second
\* submission is started from that form: at most one submission of the
\* mounted form of an auction is in flight.
OneSubmissionPerForm ==
    \A id \in AuctionIds : Cardinality(SubmissionsOfForm(id)) <= 1

====
